---- MODULE Spec2Model ----
(***************************************************************************)
(* The HTTP request pipeline of arduinolib2: HttpRequestManager drives     *)
(* intake (RetrieveRequest), the request drain (ProcessRequest ->          *)
(* HttpRequestProcessor -> HttpRequestDispatcher) and the response drain   *)
(* (ProcessResponse -> HttpResponseProcessor -> transport).                *)
(*                                                                         *)
(* Strings are TLA+ strings; a path is the text the transport delivered.   *)
(***************************************************************************)
EXTENDS Integers, Sequences, FiniteSets, TLC

\* Number of requests the transport delivers in one run.
MaxRequests == 2

(***************************************************************************)
(* HTTP methods: the nine cases of the switch in DispatchRequest.          *)
(***************************************************************************)
Methods ==
  {"GET", "POST", "PUT", "PATCH", "DELETE", "OPTIONS", "HEAD", "TRACE", "CONNECT"}

(***************************************************************************)
(* String helpers.                                                         *)
(***************************************************************************)
Digits == <<"0", "1", "2", "3", "4", "5", "6", "7", "8", "9">>

IsDigit(c) == \E i \in 1..10 : Digits[i] = c

DigitValue(c) == (CHOOSE i \in 1..10 : Digits[i] = c) - 1

\* isspace() of the C locale, on the characters the model uses.
IsSpace(c) == c = " "

RECURSIVE SplitFrom(_, _, _)
\* The segments of the rest of a path, cur being the segment read so far;
\* empty segments (a leading, trailing or doubled '/') are dropped.
SplitFrom(s, cur, acc) ==
  IF s = ""
    THEN IF cur = "" THEN acc ELSE Append(acc, cur)
    ELSE IF Head(s) = "/"
           THEN SplitFrom(Tail(s), "", IF cur = "" THEN acc ELSE Append(acc, cur))
           ELSE SplitFrom(Tail(s), cur \o Head(s), acc)

Split(path) == SplitFrom(path, "", <<>>)

\* A pattern segment ":name" is a variable named by the remainder.
IsVariable(seg) == seg # "" /\ Head(seg) = ":"

\* The variable named by the whole segment, sigil included.
VariableName_WithSigil(seg) == seg

VariableName(seg) == Tail(seg)

(***************************************************************************)
(* EndpointTrie (EndpointTrie.h): the trie is determined by the set of     *)
(* registered pattern strings.  A node is the sequence of pattern segments *)
(* leading to it.                                                          *)
(***************************************************************************)
Prefixes(segs) == {SubSeq(segs, 1, n) : n \in 0..Len(segs)}

TrieNodes(trie) == UNION {Prefixes(Split(p)) : p \in trie}

\* The registered pattern that ends at a node, if any.
IsTerminal(trie, node) == \E p \in trie : Split(p) = node

PatternAt(trie, node) == CHOOSE p \in trie : Split(p) = node

\* No literal child is ever found: every segment goes to the variable child.
HasLiteralChild_Never(nodes, node, seg) == FALSE

HasLiteralChild(nodes, node, seg) ==
  /\ ~IsVariable(seg)
  /\ Append(node, seg) \in nodes

VariableChildren(nodes, node) ==
  {n \in nodes :
     /\ Len(n) = Len(node) + 1
     /\ SubSeq(n, 1, Len(node)) = node
     /\ IsVariable(n[Len(n)])}

\* Register would give a node a second variable child.
Conflicts(trie, pattern) ==
  \E n \in TrieNodes(trie), m \in Prefixes(Split(pattern)) :
    /\ Len(n) = Len(m)
    /\ Len(n) > 0
    /\ SubSeq(n, 1, Len(n) - 1) = SubSeq(m, 1, Len(m) - 1)
    /\ IsVariable(n[Len(n)])
    /\ IsVariable(m[Len(m)])
    /\ n # m

\* Register: [ok |-> the pattern was inserted, trie |-> the trie afterwards]
Register(trie, pattern) ==
  IF Conflicts(trie, pattern)
    THEN [ok |-> FALSE, trie |-> trie]
    ELSE [ok |-> TRUE, trie |-> trie \cup {pattern}]

NoMatch == [found |-> FALSE, pattern |-> "", variables |-> <<>>]

RECURSIVE Walk(_, _, _, _, _)
\* Literal child first; else the variable child, binding the segment; no
\* backtracking.
Walk(trie, nodes, node, segs, vars) ==
  IF segs = <<>>
    THEN IF IsTerminal(trie, node)
           THEN [found |-> TRUE, pattern |-> PatternAt(trie, node), variables |-> vars]
           ELSE NoMatch
    ELSE LET seg == Head(segs) IN
         IF HasLiteralChild(nodes, node, seg)
           THEN Walk(trie, nodes, Append(node, seg), Tail(segs), vars)
           ELSE LET children == VariableChildren(nodes, node) IN
                IF children # {}
                  THEN LET child == CHOOSE n \in children : TRUE
                           name == VariableName(child[Len(child)])
                       IN Walk(trie, nodes, child, Tail(segs),
                               [k \in DOMAIN vars \cup {name} |->
                                  IF k = name THEN seg ELSE vars[k]])
                  ELSE NoMatch

Search(trie, path) ==
  LET nodes == TrieNodes(trie) IN Walk(trie, nodes, <<>>, Split(path), <<>>)

(***************************************************************************)
(* ConvertToType<Int> (signed, sizeof(Type) <= sizeof(int)): std::stoi.    *)
(* stoi skips leading white space, takes an optional sign and the longest  *)
(* run of digits, and ignores what follows; no digit, or a value outside   *)
(* int, is an exception, rethrown as std::invalid_argument.                *)
(***************************************************************************)
IntMax == 2147483647

IntMin == (0 - IntMax) - 1

RECURSIVE SkipSpace(_)
SkipSpace(s) == IF s # "" /\ IsSpace(Head(s)) THEN SkipSpace(Tail(s)) ELSE s

RECURSIVE DigitRun(_, _, _, _)
\* The longest run of digits at the front of s, accumulated as a negative
\* number down to the limit: [n |-> digits read, value |-> minus their value,
\* range |-> the value stayed within the limit].
DigitRun(s, n, acc, limit) ==
  IF s # "" /\ IsDigit(Head(s))
    THEN LET d == DigitValue(Head(s)) IN
         IF acc < (limit + d) \div 10 + (IF (limit + d) % 10 = 0 THEN 0 ELSE 1)
           THEN [n |-> n + 1, value |-> 0, range |-> FALSE]
           ELSE DigitRun(Tail(s), n + 1, acc * 10 - d, limit)
    ELSE [n |-> n, value |-> acc, range |-> TRUE]

\* [ok |-> no exception, value |-> the int returned]
Stoi(str) ==
  LET s0 == SkipSpace(str)
      neg == s0 # "" /\ Head(s0) = "-"
      s1 == IF s0 # "" /\ Head(s0) \in {"-", "+"} THEN Tail(s0) ELSE s0
      run == DigitRun(s1, 0, 0, IF neg THEN IntMin ELSE 0 - IntMax)
  IN IF run.n = 0 \/ ~run.range
       THEN [ok |-> FALSE, value |-> 0]
       ELSE [ok |-> TRUE, value |-> IF neg THEN run.value ELSE 0 - run.value]

ConvertToInt(str) == Stoi(str)

(***************************************************************************)
(* ConvertToType<UInt16> (unsigned, sizeof(Type) <= sizeof(unsigned int)): *)
(* static_cast<Type>(std::stoul(str)).  stoul reads like stoi, negates a   *)
(* value with a minus sign modulo ULONG_MAX + 1, and throws when the       *)
(* digits exceed ULONG_MAX (unsigned long of 32 bits); the cast keeps the  *)
(* low 16 bits.                                                            *)
(***************************************************************************)
ULongMax == "4294967295"

UInt16Modulus == 65536

RECURSIVE DigitPrefix(_, _)
\* The longest run of digits at the front of s.
DigitPrefix(s, acc) ==
  IF s # "" /\ IsDigit(Head(s)) THEN DigitPrefix(Tail(s), acc \o Head(s)) ELSE acc

RECURSIVE StripZeros(_)
StripZeros(s) == IF s # "" /\ Head(s) = "0" THEN StripZeros(Tail(s)) ELSE s

RECURSIVE DigitsLessEq(_, _)
\* a <= b for two digit strings of the same length.
DigitsLessEq(a, b) ==
  IF a = "" THEN TRUE
  ELSE IF DigitValue(Head(a)) < DigitValue(Head(b)) THEN TRUE
  ELSE IF DigitValue(Head(a)) > DigitValue(Head(b)) THEN FALSE
  ELSE DigitsLessEq(Tail(a), Tail(b))

InULong(digits) ==
  LET z == StripZeros(digits)
  IN \/ Len(z) < Len(ULongMax)
     \/ Len(z) = Len(ULongMax) /\ DigitsLessEq(z, ULongMax)

RECURSIVE LowBits(_, _)
\* The value of a digit string modulo 2^16.
LowBits(digits, acc) ==
  IF digits = "" THEN acc
  ELSE LowBits(Tail(digits), (acc * 10 + DigitValue(Head(digits))) % UInt16Modulus)

\* [ok |-> no exception, value |-> the UInt16 returned]
ConvertToUInt16(str) ==
  LET s0 == SkipSpace(str)
      neg == s0 # "" /\ Head(s0) = "-"
      s1 == IF s0 # "" /\ Head(s0) \in {"-", "+"} THEN Tail(s0) ELSE s0
      digits == DigitPrefix(s1, "")
  IN IF digits = "" \/ ~InULong(digits)
       THEN [ok |-> FALSE, value |-> 0]
       ELSE [ok |-> TRUE,
             value |-> IF neg THEN (UInt16Modulus - LowBits(digits, 0)) % UInt16Modulus
                       ELSE LowBits(digits, 0)]

(***************************************************************************)
(* ConvertToType<bool>: the string is lower-cased with ::tolower and       *)
(* compared with "true", "1", "false" and "0".                             *)
(***************************************************************************)
UpperCase ==
  <<"A", "B", "C", "D", "E", "F", "G", "H", "I", "J", "K", "L", "M",
    "N", "O", "P", "Q", "R", "S", "T", "U", "V", "W", "X", "Y", "Z">>

LowerCase ==
  <<"a", "b", "c", "d", "e", "f", "g", "h", "i", "j", "k", "l", "m",
    "n", "o", "p", "q", "r", "s", "t", "u", "v", "w", "x", "y", "z">>

\* ::tolower of the C locale.
ToLowerChar(c) ==
  IF \E i \in DOMAIN UpperCase : UpperCase[i] = c
    THEN LowerCase[CHOOSE i \in DOMAIN UpperCase : UpperCase[i] = c]
    ELSE c

\* The string left as it is.
ToLower_Identity(s) == s

RECURSIVE ToLower(_)
ToLower(s) == IF s = "" THEN "" ELSE ToLowerChar(Head(s)) \o ToLower(Tail(s))

\* [ok |-> no exception, value |-> the bool returned]
ConvertToBool(str) ==
  LET lower == ToLower(str)
  IN IF lower = "true" \/ lower = "1" THEN [ok |-> TRUE, value |-> TRUE]
     ELSE IF lower = "false" \/ lower = "0" THEN [ok |-> TRUE, value |-> FALSE]
     ELSE [ok |-> FALSE, value |-> FALSE]

(***************************************************************************)
(* Handlers.  A handler is a std::function<StdString(CStdString,           *)
(* Map<StdString,StdString>)>; running one either returns a body, throws   *)
(* an exception derived from std::exception, or throws something else.     *)
(* EmptyFunction is the default-constructed std::function that             *)
(* unordered_map::operator[] inserts for a missing key: calling it throws  *)
(* std::bad_function_call.                                                 *)
(***************************************************************************)
EmptyFunction == "<empty>"

Returned(body) == [kind |-> "ok", body |-> body]

StdException == [kind |-> "std_exception", body |-> ""]

OtherFault == [kind |-> "other_fault", body |-> ""]

\* Map<StdString,StdString>::operator[] on a copy: "" for a missing key.
Lookup(variables, name) ==
  IF name \in DOMAIN variables THEN variables[name] ELSE ""

Invoke(handler, payload, variables) ==
  CASE handler = EmptyFunction -> StdException
    [] handler = "greet" -> Returned("Hello, " \o Lookup(variables, "name"))
    [] handler = "status" -> Returned("OK")
    [] handler = "item" ->
         IF ConvertToInt(Lookup(variables, "id")).ok
           THEN Returned(payload)
           ELSE StdException
    [] handler = "boom" -> OtherFault
    [] OTHER -> StdException

(***************************************************************************)
(* HttpRequestDispatcher::DispatchRequest.                                 *)
(***************************************************************************)
InternalErrorPayload == "{\"error\":\"Internal Server Error\"}"

\* The payload the design documents for a routing miss.
NotFoundPayload(path) ==
  "{\"error\":\"Not Found\",\"message\":\"No handler found for " \o path \o "\"}"

\* mappings[method][patternUrl]: operator[] inserts an empty function for a
\* key that is not there.
Subscript(maps, method, patternUrl) ==
  IF patternUrl \in DOMAIN maps[method]
    THEN maps
    ELSE [maps EXCEPT ![method] =
            [k \in DOMAIN maps[method] \cup {patternUrl} |->
               IF k = patternUrl THEN EmptyFunction ELSE maps[method][k]]]

\* What the try block does with the outcome of the call.
Caught(outcome, maps) ==
  CASE outcome.kind = "ok" -> [kind |-> "return", body |-> outcome.body, maps |-> maps]
    [] outcome.kind = "std_exception" ->
         [kind |-> "return", body |-> InternalErrorPayload, maps |-> maps]
    [] OTHER -> [kind |-> "throw", body |-> "", maps |-> maps]

\* The result of the route lookup failing.
SearchMiss(path, maps) == [kind |-> "return", body |-> "", maps |-> maps]

\* A pointer is a sequence: <<>> is nullptr, <<x>> points to x.
Null == <<>>

\* The result of a call together with the std::function it called: <<h>>,
\* or Null when it called none.
Invoked(result, handler) ==
  [kind |-> result.kind, body |-> result.body, maps |-> result.maps,
   handler |-> handler]

\* DispatchRequest with the mappings keyed by the concrete url instead of the
\* matched pattern.
DispatchRequest_KeyedByUrl(trie, maps, request) ==
  LET url == request.path
      payload == request.body
      result == Search(trie, url)
  IN IF result.found = FALSE
       THEN Invoked(SearchMiss(url, maps), Null)
       ELSE IF request.method \in Methods
              THEN LET maps2 == Subscript(maps, request.method, url)
                       handler == maps2[request.method][url]
                   IN Invoked(Caught(Invoke(handler, payload, result.variables), maps2),
                              <<handler>>)
              ELSE Invoked([kind |-> "return", body |-> "", maps |-> maps], Null)

\* DispatchRequest reading the GET mapping whatever the request's method.
DispatchRequest_GetMappingsOnly(trie, maps, request) ==
  LET url == request.path
      payload == request.body
      result == Search(trie, url)
  IN IF result.found = FALSE
       THEN Invoked(SearchMiss(url, maps), Null)
       ELSE IF request.method \in Methods
              THEN LET maps2 == Subscript(maps, "GET", result.pattern)
                       handler == maps2["GET"][result.pattern]
                   IN Invoked(Caught(Invoke(handler, payload, result.variables), maps2),
                              <<handler>>)
              ELSE Invoked([kind |-> "return", body |-> "", maps |-> maps], Null)

\* [kind |-> "return" or "throw", body |-> the body returned,
\*  maps |-> the mappings after the call, handler |-> the function called]
DispatchRequest(trie, maps, request) ==
  LET url == request.path
      payload == request.body
      result == Search(trie, url)
  IN IF result.found = FALSE
       THEN Invoked(SearchMiss(url, maps), Null)
       ELSE IF request.method \in Methods
              THEN LET maps2 == Subscript(maps, request.method, result.pattern)
                       handler == maps2[request.method][result.pattern]
                   IN Invoked(Caught(Invoke(handler, payload, result.variables), maps2),
                              <<handler>>)
              ELSE Invoked([kind |-> "return", body |-> "", maps |-> maps], Null)

(***************************************************************************)
(* Registration.  InitializeMappings and the trie are filled by the        *)
(* wiring step before the pipeline starts; a route is a method, a pattern  *)
(* and the handler stored under it.                                        *)
(***************************************************************************)
Route(method, pattern, handler) ==
  [method |-> method, pattern |-> pattern, handler |-> handler]

RouteSets ==
  { { Route("GET", "/greet/:name", "greet"),
      Route("GET", "/status", "status"),
      Route("POST", "/items/:id", "item"),
      Route("GET", "/boom", "boom") },
    { Route("GET", "/status", "status") } }

RegisteredTrie(routes) == {r.pattern : r \in routes}

RegisteredMappings(routes) ==
  [m \in Methods |->
     [p \in {r.pattern : r \in {x \in routes : x.method = m}} |->
        (CHOOSE r \in routes : r.method = m /\ r.pattern = p).handler]]

(***************************************************************************)
(* The transport (IServer) is outside the repository: what ReceiveMessage  *)
(* can return is a request of one of these shapes, or nothing.             *)
(***************************************************************************)
Shape(method, path, body) == [method |-> method, path |-> path, body |-> body]

RequestShapes ==
  { Shape("GET", "/greet/Ada", ""),
    Shape("GET", "/status", ""),
    Shape("DELETE", "/status", ""),
    Shape("GET", "/nope", ""),
    Shape("POST", "/items/7", "x"),
    Shape("POST", "/items/abc", "x"),
    Shape("GET", "/boom", "") }

RequestId(n) == "r" \o Digits[n + 1]

Request(id, shape) ==
  [id |-> id, method |-> shape.method, path |-> shape.path, body |-> shape.body]

(***************************************************************************)
(* State.                                                                  *)
(***************************************************************************)
VARIABLES
  requestQueue,   \* HttpRequestQueue::requestQueue
  responseQueue,  \* the response queue behind IHttpResponseQueue
  endpointTrie,   \* HttpRequestDispatcher::endpointTrie (registered patterns)
  mappings,       \* the nine per-method mappings, method -> pattern -> handler
  server,         \* HttpRequestManager::server is not nullptr
  responseServer, \* HttpResponseProcessor::server is not nullptr
  pc,             \* where the poll loop is: "idle", "reqLoop" or "respLoop"
  processedAny,   \* the local of the running drain loop
  received,       \* history: requests intake put in the Request Queue
  dispatched,     \* history: DispatchRequest calls, with their outcome
  pushed,         \* history: responses put in the Response Queue
  sent,           \* history: SendMessage calls, with their result
  entry,          \* the queues and history lengths when the running (or last)
                  \* drain was called
  last            \* the step just taken and what it reported

vars ==
  << requestQueue, responseQueue, endpointTrie, mappings, server, responseServer,
     pc, processedAny, received, dispatched, pushed, sent, entry, last >>

\* op: the step; ret: what the processor's attempt (or intake) returned;
\* threw: a fault left the step; item: the request or response it worked on;
\* done: the manager's method has ended; result: the Bool it returned;
\* receives: the ReceiveMessage calls the step made; attempts: the calls of
\* the processor the running (or ended) drain has made so far.
Step(op, ret, threw, item, done, result) ==
  [op |-> op, ret |-> ret, threw |-> threw, item |-> item,
   done |-> done, result |-> result, receives |-> 0, attempts |-> 0]

\* The step of a drain loop that has called its processor n times.
Turn(step, n) == [step EXCEPT !.attempts = n]

\* The step of a RetrieveRequest that reached server->ReceiveMessage().
Received(step) == [step EXCEPT !.receives = 1]

Snapshot(rq, sq, nDispatched, nPushed, nSent) ==
  [requestQueue |-> rq, responseQueue |-> sq, dispatched |-> nDispatched,
   pushed |-> nPushed, sent |-> nSent]

(***************************************************************************)
(* HttpRequestQueue.                                                       *)
(***************************************************************************)
\* EnqueueRequest without the nullptr test: a null pointer is pushed too.
EnqueueRequest_Unchecked(queue, request) ==
  IF request = Null THEN Append(queue, Null) ELSE Append(queue, request[1])

\* EnqueueRequest putting the request in front of the queue.
EnqueueRequest_AtHead(queue, request) ==
  IF request = Null THEN queue ELSE <<request[1]>> \o queue

EnqueueRequest(queue, request) ==
  IF request = Null THEN queue ELSE Append(queue, request[1])

\* DequeueRequest taking the request at the back of the queue.
DequeueRequest_Back(queue) ==
  IF queue = <<>>
    THEN [item |-> Null, queue |-> queue]
    ELSE [item |-> <<queue[Len(queue)]>>, queue |-> SubSeq(queue, 1, Len(queue) - 1)]

\* [item |-> the pointer returned, queue |-> the queue afterwards]
DequeueRequest(queue) ==
  IF queue = <<>>
    THEN [item |-> Null, queue |-> queue]
    ELSE [item |-> <<Head(queue)>>, queue |-> Tail(queue)]

IsEmpty(queue) == queue = <<>>

HasRequests(queue) == ~(queue = <<>>)

(***************************************************************************)
(* The response queue (IHttpResponseQueue): a FIFO like the request queue. *)
(***************************************************************************)
EnqueueResponse(queue, response) ==
  IF response = Null THEN queue ELSE Append(queue, response[1])

DequeueResponse(queue) ==
  IF queue = <<>>
    THEN [item |-> Null, queue |-> queue]
    ELSE [item |-> <<Head(queue)>>, queue |-> Tail(queue)]

\* IHttpResponse::GetResponse(requestId, responseBody), when it returns an object.
GetResponse(requestId, responseBody) == [id |-> requestId, body |-> responseBody]

\* IHttpResponse::ToHttpString(), when it renders something.
ToHttpString(response) == "HTTP/1.1 200 OK " \o response.body

(***************************************************************************)
(* HttpRequestProcessor::ProcessRequest.  responseNull says whether        *)
(* IHttpResponse::GetResponse returns nullptr this time.                   *)
(* Result: ret (the Bool returned), threw (a fault left the method), the   *)
(* queues and mappings afterwards, the request dequeued, the DispatchRequest*)
(* calls made and the responses enqueued.                                  *)
(***************************************************************************)
\* An attempt that, when it fails, also discards the requests still queued.
Attempt_DropsRestOnFailure(ret, threw, rq, sq, maps, item, calls, out) ==
  [ret |-> ret, threw |-> threw, requestQueue |-> IF ret THEN rq ELSE <<>>,
   responseQueue |-> sq, mappings |-> maps, item |-> item, calls |-> calls,
   out |-> out]

Attempt(ret, threw, rq, sq, maps, item, calls, out) ==
  [ret |-> ret, threw |-> threw, requestQueue |-> rq, responseQueue |-> sq,
   mappings |-> maps, item |-> item, calls |-> calls, out |-> out]

\* ProcessRequest enqueueing the response whether or not DispatchRequest
\* returned.
RequestProcessor_ProcessRequest_Speculative(rq, sq, trie, maps, responseNull) ==
  IF IsEmpty(rq)
    THEN Attempt(FALSE, FALSE, rq, sq, maps, Null, <<>>, <<>>)
    ELSE
      LET d == DequeueRequest(rq)
          request == d.item
          r == DispatchRequest(trie, maps, request[1])
          call == [request |-> request[1], kind |-> r.kind, body |-> r.body,
                          handler |-> r.handler]
          requestId == request[1].id
          response == IF responseNull \/ requestId = "" THEN Null
                      ELSE <<GetResponse(requestId, r.body)>>
      IN Attempt(response # Null /\ r.kind # "throw", r.kind = "throw", d.queue,
                 EnqueueResponse(sq, response), r.maps, request, <<call>>, response)

RequestProcessor_ProcessRequest(rq, sq, trie, maps, responseNull) ==
  IF IsEmpty(rq)
    THEN Attempt(FALSE, FALSE, rq, sq, maps, Null, <<>>, <<>>)
    ELSE
      LET d == DequeueRequest(rq)
          request == d.item
      IN IF request = Null
           THEN Attempt(FALSE, FALSE, d.queue, sq, maps, Null, <<>>, <<>>)
           ELSE
             LET r == DispatchRequest(trie, maps, request[1])
                 call == [request |-> request[1], kind |-> r.kind, body |-> r.body,
                          handler |-> r.handler]
                 requestId == request[1].id
                 response == IF responseNull THEN Null
                             ELSE <<GetResponse(requestId, r.body)>>
             IN IF r.kind = "throw"
                  THEN Attempt(FALSE, TRUE, d.queue, sq, r.maps, request, <<call>>, <<>>)
                  ELSE IF requestId = ""
                    THEN Attempt(FALSE, FALSE, d.queue, sq, r.maps, request, <<call>>, <<>>)
                  ELSE IF response = Null
                    THEN Attempt(FALSE, FALSE, d.queue, sq, r.maps, request, <<call>>, <<>>)
                  ELSE Attempt(TRUE, FALSE, d.queue, EnqueueResponse(sq, response),
                               r.maps, request, <<call>>, response)

(***************************************************************************)
(* HttpResponseProcessor::ProcessResponse.  rendered is what ToHttpString  *)
(* returns and sendResult what SendMessage returns this time.              *)
(* Result: ret, the queue afterwards, the response dequeued and the        *)
(* SendMessage calls made.                                                 *)
(***************************************************************************)
\* An attempt that leaves the response it dequeued at the head of the queue.
Emission_KeepsResponse(ret, sq, item, calls) ==
  [ret |-> ret, responseQueue |-> item \o sq, item |-> item, calls |-> calls]

Emission(ret, sq, item, calls) ==
  [ret |-> ret, responseQueue |-> sq, item |-> item, calls |-> calls]

ResponseProcessor_ProcessResponse(sq, hasServer, renders, sendResult) ==
  IF IsEmpty(sq)
    THEN Emission(FALSE, sq, Null, <<>>)
    ELSE
      LET d == DequeueResponse(sq)
          response == d.item
      IN IF response = Null THEN Emission(FALSE, d.queue, Null, <<>>)
         ELSE IF ~hasServer THEN Emission(FALSE, d.queue, response, <<>>)
         ELSE
           LET requestId == response[1].id
               responseString == IF renders THEN ToHttpString(response[1]) ELSE ""
           IN IF requestId = "" THEN Emission(FALSE, d.queue, response, <<>>)
              ELSE IF responseString = "" THEN Emission(FALSE, d.queue, response, <<>>)
              ELSE Emission(sendResult, d.queue, response,
                            << [id |-> requestId, message |-> responseString,
                                result |-> sendResult] >>)

(***************************************************************************)
(* Init: the state after construction and registration.  The components    *)
(* are wired (requestProcessor and responseProcessor are not nullptr); the *)
(* two server pointers may each be nullptr.                                *)
(***************************************************************************)
Init ==
  /\ requestQueue = <<>>
  /\ responseQueue = <<>>
  /\ \E routes \in RouteSets :
       /\ endpointTrie = RegisteredTrie(routes)
       /\ mappings = RegisteredMappings(routes)
  /\ server \in BOOLEAN
  /\ responseServer \in BOOLEAN
  /\ pc = "idle"
  /\ processedAny = FALSE
  /\ received = <<>>
  /\ dispatched = <<>>
  /\ pushed = <<>>
  /\ sent = <<>>
  /\ entry = Snapshot(<<>>, <<>>, 0, 0, 0)
  /\ last = Step("Init", FALSE, FALSE, Null, FALSE, FALSE)

\* What IServer::ReceiveMessage can return now: nullptr, or a new request
\* whose id is fresh or empty.
ReceiveMessage ==
  {Null} \cup
  IF Len(received) < MaxRequests
    THEN {<<Request(id, shape)>> :
            id \in {"", RequestId(Len(received) + 1)}, shape \in RequestShapes}
    ELSE {}

(***************************************************************************)
(* HttpRequestManager::RetrieveRequest.                                    *)
(***************************************************************************)
RetrieveRequest ==
  /\ pc = "idle"
  /\ IF ~server
       THEN /\ last' = Step("RetrieveRequest", FALSE, FALSE, Null, TRUE, FALSE)
            /\ UNCHANGED <<requestQueue, received>>
       ELSE \E request \in ReceiveMessage :
              IF request = Null
                THEN /\ last' = Received(Step("RetrieveRequest", FALSE, FALSE, Null,
                                               TRUE, FALSE))
                     /\ UNCHANGED <<requestQueue, received>>
                ELSE /\ requestQueue' = EnqueueRequest(requestQueue, request)
                     /\ received' = received \o request
                     /\ last' = Received(Step("RetrieveRequest", TRUE, FALSE, request,
                                               TRUE, TRUE))
  /\ UNCHANGED << responseQueue, endpointTrie, mappings, server, responseServer,
                  pc, processedAny, dispatched, pushed, sent, entry >>

(***************************************************************************)
(* HttpRequestManager::ProcessRequest: entry, one turn of the while loop,  *)
(* and the return when the loop condition fails.                           *)
(***************************************************************************)
ProcessRequestCall ==
  /\ pc = "idle"
  /\ pc' = "reqLoop"
  /\ processedAny' = FALSE
  /\ entry' = Snapshot(requestQueue, responseQueue, Len(dispatched), Len(pushed),
                       Len(sent))
  /\ last' = Step("ProcessRequestCall", FALSE, FALSE, Null, FALSE, FALSE)
  /\ UNCHANGED << requestQueue, responseQueue, endpointTrie, mappings, server,
                  responseServer, received, dispatched, pushed, sent >>

ProcessRequestAttempt ==
  /\ pc = "reqLoop"
  /\ HasRequests(requestQueue)
  /\ \E responseNull \in BOOLEAN :
       \E a \in {RequestProcessor_ProcessRequest(requestQueue, responseQueue,
                                                 endpointTrie, mappings, responseNull)} :
          /\ requestQueue' = a.requestQueue
          /\ responseQueue' = a.responseQueue
          /\ mappings' = a.mappings
          /\ dispatched' = dispatched \o a.calls
          /\ pushed' = pushed \o a.out
          /\ processedAny' = (processedAny \/ a.ret)
          /\ pc' = IF a.ret THEN "reqLoop" ELSE "idle"
          /\ last' = Turn(Step("ProcessRequestAttempt", a.ret, a.threw, a.item,
                               ~a.ret, ~a.threw /\ processedAny),
                          last.attempts + 1)
  /\ UNCHANGED << endpointTrie, server, responseServer, received, sent, entry >>

\* ProcessRequest returning true where it returns processedAny.
ProcessRequestReturn_ReportsWork ==
  /\ pc = "reqLoop"
  /\ ~HasRequests(requestQueue)
  /\ pc' = "idle"
  /\ last' = Turn(Step("ProcessRequestReturn", FALSE, FALSE, Null, TRUE, TRUE),
                  last.attempts)
  /\ UNCHANGED << requestQueue, responseQueue, endpointTrie, mappings, server,
                  responseServer, processedAny, received, dispatched, pushed, sent,
                  entry >>

ProcessRequestReturn ==
  /\ pc = "reqLoop"
  /\ ~HasRequests(requestQueue)
  /\ pc' = "idle"
  /\ last' = Turn(Step("ProcessRequestReturn", FALSE, FALSE, Null, TRUE,
                       processedAny),
                  last.attempts)
  /\ UNCHANGED << requestQueue, responseQueue, endpointTrie, mappings, server,
                  responseServer, processedAny, received, dispatched, pushed, sent,
                  entry >>

(***************************************************************************)
(* HttpRequestManager::ProcessResponse: entry and one turn of while(true). *)
(***************************************************************************)
ProcessResponseCall ==
  /\ pc = "idle"
  /\ pc' = "respLoop"
  /\ processedAny' = FALSE
  /\ entry' = Snapshot(requestQueue, responseQueue, Len(dispatched), Len(pushed),
                       Len(sent))
  /\ last' = Step("ProcessResponseCall", FALSE, FALSE, Null, FALSE, FALSE)
  /\ UNCHANGED << requestQueue, responseQueue, endpointTrie, mappings, server,
                  responseServer, received, dispatched, pushed, sent >>

ProcessResponseAttempt ==
  /\ pc = "respLoop"
  /\ \E renders \in BOOLEAN, sendResult \in BOOLEAN :
       \E e \in {ResponseProcessor_ProcessResponse(responseQueue, responseServer,
                                                   renders, sendResult)} :
          /\ responseQueue' = e.responseQueue
          /\ sent' = sent \o e.calls
          /\ processedAny' = (processedAny \/ e.ret)
          /\ pc' = IF e.ret THEN "respLoop" ELSE "idle"
          /\ last' = Turn(Step("ProcessResponseAttempt", e.ret, FALSE, e.item,
                               ~e.ret, processedAny),
                          last.attempts + 1)
  /\ UNCHANGED << requestQueue, endpointTrie, mappings, server, responseServer,
                  received, dispatched, pushed, entry >>

Next ==
  \/ RetrieveRequest
  \/ ProcessRequestCall
  \/ ProcessRequestAttempt
  \/ ProcessRequestReturn
  \/ ProcessResponseCall
  \/ ProcessResponseAttempt

Spec == Init /\ [][Next]_vars

(***************************************************************************)
(* Properties.  A call is an element of the history dispatched: the        *)
(* request, whether DispatchRequest returned or threw, and the body.       *)
(* AttemptedRequest: the step just taken dequeued a request and called     *)
(* DispatchRequest on it; LastCall is that call.                           *)
(***************************************************************************)
AttemptedRequest == last.op = "ProcessRequestAttempt" /\ last.item # Null

LastCall == dispatched[Len(dispatched)]

\* Search on every trie registration leaves and every path the transport
\* delivers.
SearchResults ==
  [trie \in {RegisteredTrie(routes) : routes \in RouteSets},
   path \in {shape.path : shape \in RequestShapes} |-> Search(trie, path)]

Match(call) == SearchResults[endpointTrie, call.request.path]

\* A handler was registered under (method, pattern): the key is there and
\* does not hold the empty function operator[] leaves behind.
HasHandler(method, pattern) ==
  /\ method \in Methods
  /\ pattern \in DOMAIN mappings[method]
  /\ mappings[method][pattern] # EmptyFunction

\* What the registered handler does for a call that reaches it.
HandlerOutcome(call) ==
  Invoke(mappings[call.request.method][Match(call).pattern],
         call.request.body, Match(call).variables)

ReachesHandler(call) ==
  Match(call).found /\ HasHandler(call.request.method, Match(call).pattern)

\* C1: a request whose path matches no registered pattern gets exactly the
\* not-found payload naming its path, whatever its method and body.
C1_MissGivesNotFoundPayload ==
  AttemptedRequest => LET call == LastCall IN
    ~Match(call).found =>
      /\ call.kind = "return"
      /\ call.body = NotFoundPayload(call.request.path)

\* C2: a request whose path matches a pattern that has no handler for the
\* request's method gets the not-found payload, not the internal-error
\* payload and not an empty body.
C2_NoHandlerGivesNotFoundPayload ==
  AttemptedRequest => LET call == LastCall IN
    (Match(call).found /\ ~HasHandler(call.request.method, Match(call).pattern)) =>
      /\ call.kind = "return"
      /\ call.body = NotFoundPayload(call.request.path)

\* C3: whenever the handler a request reaches faults (while running or while
\* converting a path variable, whatever the kind of fault), DispatchRequest
\* returns exactly the internal-error payload and no fault leaves it.
C3_EveryFaultIsCaught ==
  AttemptedRequest => LET call == LastCall IN
    (ReachesHandler(call) /\ HandlerOutcome(call).kind # "ok") =>
      /\ call.kind = "return"
      /\ call.body = InternalErrorPayload

\* The step just taken ended an invocation of HttpRequestManager::ProcessRequest.
RequestDrainEnded ==
  last.op \in {"ProcessRequestAttempt", "ProcessRequestReturn"} /\ last.done

\* The step just taken ended an invocation of HttpRequestManager::ProcessResponse.
ResponseDrainEnded == last.op = "ProcessResponseAttempt" /\ last.done

\* C4: when dispatching a queued request yields the internal-error payload,
\* a response carrying that payload is enqueued for it and the same
\* invocation goes on with the requests behind it: the attempt does not
\* stop the drain, and the invocation ends with none of them left queued.
C4_InternalErrorDoesNotStopTheDrain ==
  /\ (AttemptedRequest /\ LastCall.kind = "return"
        /\ LastCall.body = InternalErrorPayload) =>
       /\ last.ret
       /\ pc = "reqLoop"
       /\ pushed # <<>>
       /\ pushed[Len(pushed)] =
            [id |-> last.item[1].id, body |-> InternalErrorPayload]
  /\ (RequestDrainEnded
        /\ \E i \in (entry.dispatched + 1)..Len(dispatched) :
             dispatched[i].kind = "return"
               /\ dispatched[i].body = InternalErrorPayload) =>
       requestQueue = <<>>

\* C5: requests are dispatched in the order intake enqueued them, and the
\* i-th response put in the Response Queue carries the id of the i-th
\* request dequeued.
C5_FifoEndToEnd ==
  /\ Len(dispatched) <= Len(received)
  /\ \A i \in 1..Len(dispatched) : dispatched[i].request = received[i]
  /\ Len(pushed) <= Len(dispatched)
  /\ \A i \in 1..Len(pushed) : pushed[i].id = dispatched[i].request.id

\* C6: when the request matches a pattern, a handler is registered for its
\* method under that pattern and the handler completes without fault,
\* DispatchRequest returns exactly the handler's body for (request.body,
\* the bindings of the match); GET /greet/Ada under GET /greet/:name gives
\* "Hello, Ada".
C6_HandlerResultUnchanged ==
  AttemptedRequest => LET call == LastCall
                          outcome == HandlerOutcome(call)
                      IN
    /\ (ReachesHandler(call) /\ outcome.kind = "ok") =>
         /\ call.kind = "return"
         /\ call.body = outcome.body
    /\ (call.request.method = "GET" /\ call.request.path = "/greet/Ada"
          /\ HasHandler("GET", "/greet/:name")) =>
         /\ call.kind = "return"
         /\ call.body = "Hello, Ada"
    /\ (call.request.method = "POST" /\ call.request.path = "/items/7"
          /\ HasHandler("POST", "/items/:id")) =>
         /\ call.kind = "return"
         /\ call.body = call.request.body

C6_Witness ==
  AttemptedRequest /\ LET call == LastCall IN
    /\ ReachesHandler(call)
    /\ HandlerOutcome(call).kind = "ok"
    /\ Match(call).variables # <<>>
    /\ call.body = "Hello, Ada"

\* C7: every DispatchRequest call ends by returning a body that is the
\* invoked handler's result, the not-found payload or the internal-error
\* payload.
C7_ThreeOutcomes ==
  AttemptedRequest => LET call == LastCall IN
    /\ call.kind = "return"
    /\ \/ call.body = NotFoundPayload(call.request.path)
       \/ call.body = InternalErrorPayload
       \/ /\ ReachesHandler(call)
          /\ HandlerOutcome(call).kind = "ok"
          /\ call.body = HandlerOutcome(call).body

\* C8: the request-processing step called on an empty Request Queue, and the
\* response-processing step called on an empty Response Queue, return false,
\* call neither the dispatcher nor the transport and leave both queues as
\* they were; so does the processor's own ProcessRequest / ProcessResponse.
C8_EmptyQueueNoWork ==
  /\ ((RequestDrainEnded /\ entry.requestQueue = <<>>)
        \/ (ResponseDrainEnded /\ entry.responseQueue = <<>>)) =>
       /\ ~last.threw
       /\ last.result = FALSE
       /\ Len(dispatched) = entry.dispatched
       /\ Len(sent) = entry.sent
       /\ requestQueue = entry.requestQueue
       /\ responseQueue = entry.responseQueue
  /\ \A b \in BOOLEAN :
       RequestProcessor_ProcessRequest(<<>>, responseQueue, endpointTrie, mappings, b)
         = Attempt(FALSE, FALSE, <<>>, responseQueue, mappings, Null, <<>>, <<>>)
  /\ \A b \in BOOLEAN, c \in BOOLEAN :
       ResponseProcessor_ProcessResponse(<<>>, responseServer, b, c)
         = Emission(FALSE, <<>>, Null, <<>>)

C8_Witness ==
  /\ last.op = "ProcessRequestReturn"
  /\ entry.requestQueue = <<>>
  /\ entry.responseQueue # <<>>
  /\ dispatched # <<>>

\* C9: a response whose emission attempt fails is still at the head of the
\* Response Queue afterwards, to be attempted again.
C9_FailedEmissionStaysQueued ==
  (last.op = "ProcessResponseAttempt" /\ last.item # Null /\ ~last.ret) =>
    /\ responseQueue # <<>>
    /\ Head(responseQueue) = last.item[1]

\* C10: every request removed from the Request Queue has put exactly one
\* response, with its id and the dispatcher's result, in the Response Queue;
\* a request whose processing attempt reports failure is still at the head
\* of the Request Queue.
C10_NoRequestLost ==
  /\ Len(dispatched) = Len(pushed)
  /\ \A i \in 1..Len(pushed) :
       i <= Len(dispatched) =>
         pushed[i] = [id |-> dispatched[i].request.id, body |-> dispatched[i].body]
  /\ (AttemptedRequest /\ ~last.ret) =>
       /\ requestQueue # <<>>
       /\ Head(requestQueue) = last.item[1]

\* The number of elements of a history that carry the id.
CountId(seq, id) == Cardinality({i \in 1..Len(seq) : seq[i].id = id})

\* A DispatchRequest call for a request intake received, which returned the
\* body, stands behind the response.
Dispatched(response) ==
  \E k \in 1..Len(dispatched) :
    /\ dispatched[k].kind = "return"
    /\ dispatched[k].request.id = response.id
    /\ dispatched[k].body = response.body
    /\ k <= Len(received)
    /\ received[k] = dispatched[k].request

\* C11: every response in the Response Queue, and every response handed to
\* the transport, carries the id of a request that intake received, that was
\* dequeued and whose DispatchRequest call had returned; no request id has
\* more than one response enqueued for it.
C11_NoSpeculativeResponse ==
  /\ \A j \in 1..Len(pushed) :
       /\ Dispatched(pushed[j])
       /\ CountId(pushed, pushed[j].id) = 1
  /\ Len(pushed) <= Cardinality({k \in 1..Len(dispatched) : dispatched[k].kind = "return"})
  /\ \A i \in 1..Len(responseQueue) :
       \E j \in 1..Len(pushed) : pushed[j] = responseQueue[i]
  /\ \A i \in 1..Len(sent) :
       /\ \E j \in 1..Len(pushed) :
            /\ pushed[j].id = sent[i].id
            /\ sent[i].message = ToHttpString(pushed[j])
       /\ CountId(sent, sent[i].id) = 1

C11_Witness ==
  /\ sent # <<>>
  /\ responseQueue # <<>>
  /\ requestQueue = <<>>

\* C12: a RetrieveRequest step calls ReceiveMessage at most once; when the
\* transport returned a request, the Request Queue is the old queue with
\* that request appended at its tail and the step returns true; otherwise
\* the queue is unchanged and the step returns false; it returns true
\* exactly when the queue grew.
C12_RetrieveRequest ==
  [][last'.op = "RetrieveRequest" =>
       /\ last'.receives <= 1
       /\ last'.receives = (IF server THEN 1 ELSE 0)
       /\ IF last'.item # Null
            THEN /\ last'.receives = 1
                 /\ requestQueue' = Append(requestQueue, last'.item[1])
                 /\ last'.result = TRUE
            ELSE /\ requestQueue' = requestQueue
                 /\ last'.result = FALSE
       /\ last'.result = (Len(requestQueue') = Len(requestQueue) + 1)
       /\ last'.result = (requestQueue' # requestQueue)
       /\ last'.done
    ]_vars

C12_Witness ==
  /\ last.op = "RetrieveRequest"
  /\ last.result
  /\ last.receives = 1
  /\ Len(requestQueue) = 2
  /\ requestQueue[2] = last.item[1]
  /\ requestQueue[1] # requestQueue[2]

(***************************************************************************)
(* HttpRequestQueue on its own: a caller of IHttpRequestQueue enqueues     *)
(* (a request or nullptr) and dequeues in any order, also when the queue   *)
(* is empty.  The manager and the processor test IsEmpty / HasRequests     *)
(* before they dequeue, so Spec never dequeues from an empty queue.        *)
(***************************************************************************)
InitQueue ==
  /\ requestQueue = <<>>
  /\ responseQueue = <<>>
  /\ endpointTrie = RegisteredTrie({})
  /\ mappings = RegisteredMappings({})
  /\ server = FALSE
  /\ responseServer = FALSE
  /\ pc = "idle"
  /\ processedAny = FALSE
  /\ received = <<>>
  /\ dispatched = <<>>
  /\ pushed = <<>>
  /\ sent = <<>>
  /\ entry = Snapshot(<<>>, <<>>, 0, 0, 0)
  /\ last = Step("Init", FALSE, FALSE, Null, FALSE, FALSE)

QueueEnqueueRequest ==
  /\ \E request \in {Null} \cup
                    IF Len(received) < MaxRequests
                      THEN {<<Request(RequestId(Len(received) + 1), shape)>> :
                              shape \in RequestShapes}
                      ELSE {} :
       /\ requestQueue' = EnqueueRequest(requestQueue, request)
       /\ received' = received \o request
       /\ last' = Step("EnqueueRequest", FALSE, FALSE, request, TRUE, FALSE)
  /\ UNCHANGED << responseQueue, endpointTrie, mappings, server, responseServer,
                  pc, processedAny, dispatched, pushed, sent, entry >>

QueueDequeueRequest ==
  /\ \E d \in {DequeueRequest(requestQueue)} :
       /\ requestQueue' = d.queue
       /\ last' = Step("DequeueRequest", d.item # Null, FALSE, d.item, TRUE,
                       IsEmpty(d.queue))
  /\ UNCHANGED << responseQueue, endpointTrie, mappings, server, responseServer,
                  pc, processedAny, received, dispatched, pushed, sent, entry >>

NextQueue ==
  \/ QueueEnqueueRequest
  \/ QueueDequeueRequest

SpecQueue == InitQueue /\ [][NextQueue]_vars

\* C13: DequeueRequest on an empty queue returns nullptr and leaves the
\* queue empty; on a non-empty queue it returns the request at the head and
\* removes exactly that request, the rest staying in order.
C13_DequeueRequest ==
  [][last'.op = "DequeueRequest" =>
       IF Len(requestQueue) = 0
         THEN /\ last'.item = Null
              /\ ~last'.threw
              /\ Len(requestQueue') = 0
         ELSE /\ last'.item = <<requestQueue[1]>>
              /\ Len(requestQueue') = Len(requestQueue) - 1
              /\ \A i \in 1..Len(requestQueue') : requestQueue'[i] = requestQueue[i + 1]
    ]_vars

\* Both received requests were dequeued, and a further DequeueRequest found
\* the queue empty.
C13_Witness ==
  /\ last.op = "DequeueRequest"
  /\ last.item = Null
  /\ requestQueue = <<>>
  /\ Len(received) = 2
  /\ received[1].path # received[2].path

\* C14: the Dispatch Table is read-only during request handling: after any
\* number of dispatches, including one of a request whose matched pattern
\* has no handler for its method, the trie and the nine mappings hold
\* exactly what registration put there.
C14_DispatchTableReadOnly ==
  \E routes \in RouteSets :
    /\ endpointTrie = RegisteredTrie(routes)
    /\ mappings = RegisteredMappings(routes)

\* The routes registration stored.
Routes == CHOOSE routes \in RouteSets : RegisteredTrie(routes) = endpointTrie

\* C15: the handler DispatchRequest calls is the one stored under the
\* request's own method and the pattern Search matched, never one stored
\* under another method or looked up by the concrete path; two requests of
\* the same method whose paths match the same pattern call the same handler;
\* a routing miss calls no handler.
C15_HandlerByMethodAndPattern ==
  AttemptedRequest => LET call == LastCall
                          match == Match(call)
                      IN
    /\ ~match.found => call.handler = Null
    /\ match.found =>
         /\ match.pattern \in DOMAIN mappings[call.request.method]
         /\ call.handler = <<mappings[call.request.method][match.pattern]>>
         /\ \A r \in Routes :
              call.handler = <<r.handler>> =>
                /\ r.method = call.request.method
                /\ r.pattern = match.pattern
         /\ call.handler # <<EmptyFunction>> =>
              \E r \in Routes : call.handler = <<r.handler>>
         /\ \A k \in 1..Len(dispatched) :
              (/\ dispatched[k].request.method = call.request.method
               /\ Match(dispatched[k]).found
               /\ Match(dispatched[k]).pattern = match.pattern)
                => dispatched[k].handler = call.handler

C15_Witness ==
  /\ AttemptedRequest
  /\ Len(dispatched) = 2
  /\ dispatched[1].request.path = "/items/7"
  /\ dispatched[2].request.path = "/items/abc"
  /\ dispatched[1].handler = <<"item">>
  /\ dispatched[2].handler = <<"item">>

(***************************************************************************)
(* EndpointTrie on its own: patterns are registered in any order and any   *)
(* of a set of concrete paths is searched after any number of them.        *)
(***************************************************************************)
Patterns ==
  {"/users/active", "/users/:id", "/users/:id/posts", "/users/:name", "/status",
   "/orgs/:org/repos/:repo"}

Paths ==
  {"/users/active", "/users/7", "/users/7/posts", "/users/active/posts",
   "/users/7/likes", "/users", "/status", "/status/7", "/nope",
   "/orgs/acme/repos/web", "/orgs/acme/repos", "/orgs/acme/teams/web"}

InitSearch ==
  /\ requestQueue = <<>>
  /\ responseQueue = <<>>
  /\ endpointTrie = {}
  /\ mappings = RegisteredMappings({})
  /\ server = FALSE
  /\ responseServer = FALSE
  /\ pc = "idle"
  /\ processedAny = FALSE
  /\ received = <<>>
  /\ dispatched = <<>>
  /\ pushed = <<>>
  /\ sent = <<>>
  /\ entry = Snapshot(<<>>, <<>>, 0, 0, 0)
  /\ last = Step("Init", FALSE, FALSE, Null, FALSE, FALSE)

TrieRegister ==
  /\ \E pattern \in Patterns \ endpointTrie :
       \E r \in {Register(endpointTrie, pattern)} :
          /\ endpointTrie' = r.trie
          /\ last' = Step("Register", r.ok, FALSE, <<pattern>>, TRUE, r.ok)
  /\ UNCHANGED << requestQueue, responseQueue, mappings, server, responseServer,
                  pc, processedAny, received, dispatched, pushed, sent, entry >>

\* item points to [path |-> the path searched, result |-> what Search gave]
TrieSearch ==
  /\ \E path \in Paths :
       \E result \in {Search(endpointTrie, path)} :
          last' = Step("Search", result.found, FALSE,
                       <<[path |-> path, result |-> result]>>, TRUE, result.found)
  /\ UNCHANGED << requestQueue, responseQueue, endpointTrie, mappings, server,
                  responseServer, pc, processedAny, received, dispatched, pushed,
                  sent, entry >>

NextSearch ==
  \/ TrieRegister
  \/ TrieSearch

SpecSearch == InitSearch /\ [][NextSearch]_vars

Searched == last.op = "Search"

\* The node a pattern passes through before its i-th segment.
NodeBefore(pattern, i) == SubSeq(Split(pattern), 1, i - 1)

\* C16: where a node has a literal child equal to the path segment, Search
\* descends into it and not into the node's variable child: with
\* /users/active and /users/:id both registered, in either order,
\* Search("/users/active") gives /users/active and binds nothing; and no
\* match ever binds a variable to a segment the node had a literal child for.
C16_LiteralOverVariable ==
  Searched => LET path == last.item[1].path
                  result == last.item[1].result
              IN
    /\ ({"/users/active", "/users/:id"} \subseteq endpointTrie
          /\ path = "/users/active") =>
         /\ result.found
         /\ result.pattern = "/users/active"
         /\ result.variables = <<>>
    /\ result.found =>
         \A i \in 1..Len(Split(result.pattern)) :
           IsVariable(Split(result.pattern)[i]) =>
             Append(NodeBefore(result.pattern, i), Split(path)[i])
               \notin TrieNodes(endpointTrie)

C16_Witness ==
  /\ Searched
  /\ {"/users/active", "/users/:id"} \subseteq endpointTrie
  /\ last.item[1].path = "/users/active"
  /\ last.item[1].result.pattern = "/users/active"

\* The path is the pattern with values put for its variable segments.
Instantiates(path, pattern) ==
  /\ Len(Split(path)) = Len(Split(pattern))
  /\ \A i \in 1..Len(Split(pattern)) :
       IsVariable(Split(pattern)[i]) \/ Split(pattern)[i] = Split(path)[i]

\* The values the path puts for the pattern's variables, by variable name.
Bindings(path, pattern) ==
  LET places == {i \in 1..Len(Split(pattern)) : IsVariable(Split(pattern)[i])}
  IN [name \in {Tail(Split(pattern)[i]) : i \in places} |->
        Split(path)[CHOOSE i \in places : Tail(Split(pattern)[i]) = name]]

\* A value the path puts for a variable of the pattern is also a literal
\* child of the node that holds the variable.
CapturedByLiteral(trie, path, pattern) ==
  \E i \in 1..Len(Split(pattern)) :
    /\ IsVariable(Split(pattern)[i])
    /\ Append(NodeBefore(pattern, i), Split(path)[i]) \in TrieNodes(trie)

\* C17: for a registered pattern P and a path that instantiates P without
\* being captured by a literal sibling, Search finds P with the variables
\* bound to the path's values; a path that instantiates no registered
\* pattern (its segment count is no terminal's depth, or a segment has no
\* child to descend into) is not found; what is found is instantiated.
C17_SearchCorrect ==
  Searched => LET path == last.item[1].path
                  result == last.item[1].result
              IN
    /\ \A pattern \in endpointTrie :
         (Instantiates(path, pattern) /\ ~CapturedByLiteral(endpointTrie, path, pattern))
           => /\ result.found
              /\ result.pattern = pattern
              /\ result.variables = Bindings(path, pattern)
    /\ (\A pattern \in endpointTrie : Len(Split(pattern)) # Len(Split(path)))
         => ~result.found
    /\ (\A pattern \in endpointTrie : ~Instantiates(path, pattern))
         => result = NoMatch
    /\ result.found =>
         /\ result.pattern \in endpointTrie
         /\ Instantiates(path, result.pattern)

C17_Witness ==
  /\ Searched
  /\ {"/users/active", "/users/:id", "/orgs/:org/repos/:repo"} \subseteq endpointTrie
  /\ last.item[1].path = "/orgs/acme/repos/web"
  /\ last.item[1].result.found
  /\ last.item[1].result.variables["org"] = "acme"
  /\ last.item[1].result.variables["repo"] = "web"

(***************************************************************************)
(* ConvertToType on its own: a handler converts any of a set of strings to *)
(* bool, to Int or to UInt16.                                              *)
(***************************************************************************)
\* Length of the strings built from Alphabet.
MaxLen == 2

Alphabet == {"0", "1", "9", "-", " ", "a", "T"}

RECURSIVE StringsUpTo(_)
StringsUpTo(n) ==
  IF n = 0 THEN {""}
  ELSE LET shorter == StringsUpTo(n - 1)
       IN shorter \cup {t \o c : t \in shorter, c \in Alphabet}

TrueSpellings ==
  {a \o b \o c \o d : a \in {"t", "T"}, b \in {"r", "R"}, c \in {"u", "U"},
                      d \in {"e", "E"}}

FalseSpellings ==
  {a \o b \o c \o d \o f : a \in {"f", "F"}, b \in {"a", "A"}, c \in {"l", "L"},
                           d \in {"s", "S"}, f \in {"e", "E"}}

Inputs ==
  StringsUpTo(MaxLen) \cup TrueSpellings \cup FalseSpellings \cup
  {" true", "true ", " false", "false ", "yes", "no", "on", "tru", "truee",
   "true1", "01", "10", "1.0", "t", "y",
   "12", "12abc", "abc", "abc12", " 42", "42 ", "+7", "-5", "007", "1.5", "0x10",
   "65535", "65536", "70000", "-65535", "2147483647", "2147483648",
   "-2147483648", "-2147483649", "4294967295", "4294967296", "99999999999"}

InitConvert ==
  /\ requestQueue = <<>>
  /\ responseQueue = <<>>
  /\ endpointTrie = RegisteredTrie({})
  /\ mappings = RegisteredMappings({})
  /\ server = FALSE
  /\ responseServer = FALSE
  /\ pc = "idle"
  /\ processedAny = FALSE
  /\ received = <<>>
  /\ dispatched = <<>>
  /\ pushed = <<>>
  /\ sent = <<>>
  /\ entry = Snapshot(<<>>, <<>>, 0, 0, 0)
  /\ last = Step("Init", FALSE, FALSE, Null, FALSE, FALSE)

\* The step of a conversion: threw is the std::invalid_argument, item points
\* to [str |-> the input, value |-> what was returned].
Conversion(type, str, r) ==
  Step(type, r.ok, ~r.ok, <<[str |-> str, value |-> r.value]>>, TRUE, r.ok)

ConvertBool ==
  /\ \E str \in Inputs : last' = Conversion("ConvertToType<bool>", str, ConvertToBool(str))
  /\ UNCHANGED << requestQueue, responseQueue, endpointTrie, mappings, server,
                  responseServer, pc, processedAny, received, dispatched, pushed,
                  sent, entry >>

ConvertInt ==
  /\ \E str \in Inputs : last' = Conversion("ConvertToType<Int>", str, ConvertToInt(str))
  /\ UNCHANGED << requestQueue, responseQueue, endpointTrie, mappings, server,
                  responseServer, pc, processedAny, received, dispatched, pushed,
                  sent, entry >>

ConvertUInt16 ==
  /\ \E str \in Inputs :
       last' = Conversion("ConvertToType<UInt16>", str, ConvertToUInt16(str))
  /\ UNCHANGED << requestQueue, responseQueue, endpointTrie, mappings, server,
                  responseServer, pc, processedAny, received, dispatched, pushed,
                  sent, entry >>

NextConvert ==
  \/ ConvertBool
  \/ ConvertInt
  \/ ConvertUInt16

SpecConvert == InitConvert /\ [][NextConvert]_vars

\* C18: ConvertToType<bool>(s) returns true exactly when s is a spelling of
\* "true" in any mix of cases or is "1", false exactly when it is a spelling
\* of "false" or is "0", and throws for every other string, the empty
\* string and strings with white space around the word included.
C18_BoolConversion ==
  last.op = "ConvertToType<bool>" =>
    LET str == last.item[1].str
        value == last.item[1].value
    IN /\ (~last.threw /\ value = TRUE) <=> str \in TrueSpellings \cup {"1"}
       /\ (~last.threw /\ value = FALSE) <=> str \in FalseSpellings \cup {"0"}
       /\ last.threw <=> str \notin TrueSpellings \cup FalseSpellings \cup {"1", "0"}
       /\ str \in {"", " ", " true", "true ", " 1", "1 ", " 0", "0 "} => last.threw

C18_Witness ==
  /\ last.op = "ConvertToType<bool>"
  /\ last.item[1].str = "TrUe"
  /\ ~last.threw
  /\ last.item[1].value = TRUE

\* The string is a numeral and nothing else: an optional minus sign and then
\* digits only.
IsNumeral(str) ==
  /\ str # ""
  /\ LET digits == IF Head(str) = "-" THEN Tail(str) ELSE str
     IN /\ digits # ""
        /\ DigitPrefix(digits, "") = digits

RECURSIVE DigitsValue(_, _)
\* The number a short digit string denotes.
DigitsValue(digits, acc) ==
  IF digits = "" THEN acc
  ELSE DigitsValue(Tail(digits), acc * 10 + DigitValue(Head(digits)))

\* The number a numeral of at most nine digits denotes.
NumeralValue(str) ==
  IF Head(str) = "-" THEN 0 - DigitsValue(Tail(str), 0) ELSE DigitsValue(str, 0)

\* C19: an integer conversion returns a value only for a string that is
\* entirely a numeral denoting that value within the target's range; a
\* numeral followed by other characters, a negative numeral for an unsigned
\* target and a numeral outside the target's range are conversion errors.
C19_IntegerConversion ==
  last.op \in {"ConvertToType<Int>", "ConvertToType<UInt16>"} =>
    LET str == last.item[1].str
        value == last.item[1].value
    IN ~last.threw =>
         /\ IsNumeral(str)
         /\ Len(str) <= 9 => value = NumeralValue(str)
         /\ last.op = "ConvertToType<UInt16>" =>
              /\ Head(str) # "-"
              /\ Len(StripZeros(str)) <= 5
              /\ Len(StripZeros(str)) = 5 => DigitsLessEq(StripZeros(str), "65535")

\* The requests the ended (or running) invocation of ProcessRequest took
\* from the queue: each attempt on a non-empty queue dequeues and dispatches
\* one.
Attempted == Len(dispatched) - entry.dispatched

\* C20: HttpRequestManager::ProcessRequest returns only when the Request
\* Queue is empty or the latest attempt reported failure; when it stops, the
\* requests behind the attempted ones are still queued in their original
\* order; it returns true exactly when a response was pushed to the Response
\* Queue during the invocation.
C20_StopCondition ==
  RequestDrainEnded =>
    /\ ~last.threw =>
         \/ requestQueue = <<>>
         \/ last.op = "ProcessRequestAttempt" /\ last.ret = FALSE
    /\ last.op = "ProcessRequestReturn" => requestQueue = <<>>
    /\ Attempted <= Len(entry.requestQueue)
    /\ requestQueue =
         SubSeq(entry.requestQueue, Attempted + 1, Len(entry.requestQueue))
    /\ ~last.threw => (last.result <=> Len(pushed) > entry.pushed)

C20_Witness ==
  /\ RequestDrainEnded
  /\ last.op = "ProcessRequestAttempt"
  /\ ~last.threw
  /\ last.result = FALSE
  /\ Len(entry.requestQueue) = 2
  /\ requestQueue = <<entry.requestQueue[2]>>
  /\ last.item = <<entry.requestQueue[1]>>

\* C21: both drain loops end after at most (queue length at the call + 1)
\* attempts: a loop goes on only after an attempt that reported success, and
\* every attempt so far has taken one element from its queue; ProcessResponse
\* hands the transport the responses in Response Queue order and ends on an
\* empty queue or on an emission that fails.
C21_DrainsTerminate ==
  /\ (pc = "reqLoop" \/ RequestDrainEnded) =>
       /\ last.attempts <= Len(entry.requestQueue) + 1
       /\ Len(requestQueue) = Len(entry.requestQueue) - last.attempts
       /\ (pc = "reqLoop" /\ last.attempts > 0) => last.ret
  /\ (pc = "respLoop" \/ ResponseDrainEnded) =>
       /\ last.attempts <= Len(entry.responseQueue) + 1
       /\ (pc = "respLoop" /\ last.attempts > 0) =>
            /\ last.ret
            /\ Len(responseQueue) = Len(entry.responseQueue) - last.attempts
       /\ \A i \in 1..(Len(sent) - entry.sent) :
            /\ i <= Len(entry.responseQueue)
            /\ sent[entry.sent + i].id = entry.responseQueue[i].id
            /\ sent[entry.sent + i].message = ToHttpString(entry.responseQueue[i])
  /\ ResponseDrainEnded =>
       /\ last.ret = FALSE
       /\ \/ /\ last.item = Null
             /\ responseQueue = <<>>
             /\ last.attempts = Len(entry.responseQueue) + 1
          \/ /\ last.item # Null
             /\ last.attempts <= Len(entry.responseQueue)
             /\ Len(responseQueue) = Len(entry.responseQueue) - last.attempts

C21_Witness ==
  /\ ResponseDrainEnded
  /\ Len(entry.responseQueue) = 2
  /\ last.attempts = 3
  /\ Len(sent) = entry.sent + 2
  /\ sent[entry.sent + 1].id # sent[entry.sent + 2].id

\* The transport took a SendMessage carrying the id of the n-th request
\* intake put in the Request Queue.
Delivered(n) ==
  \E i \in 1..Len(sent) : sent[i].id = received[n].id /\ sent[i].result

\* The n-th request is still on its way: it waits in the Request Queue, or
\* a response carrying its id waits in the Response Queue.
Pending(n) ==
  \/ \E i \in 1..Len(requestQueue) : requestQueue[i] = received[n]
  \/ \E i \in 1..Len(responseQueue) : responseQueue[i].id = received[n].id

\* C22: every request intake put in the Request Queue is eventually handed
\* to the transport as a SendMessage carrying its id, and none disappears
\* without a send: at every moment a request is delivered or still in one
\* of the two queues, from where the poll loop's next calls take it on.
C22_NoRequestDisappears ==
  \A n \in 1..Len(received) : Delivered(n) \/ Pending(n)

\* An entry of the Request Queue that points to a request.
IsRequest(x) == DOMAIN x = {"id", "method", "path", "body"}

\* C23: the Request Queue never holds a null entry: EnqueueRequest(nullptr)
\* leaves the queue as it was, DequeueRequest returns nullptr exactly when
\* the queue was empty, and IsEmpty() is the negation of HasRequests().
C23_NoNullEntry ==
  [][/\ \A i \in 1..Len(requestQueue') : IsRequest(requestQueue'[i])
     /\ IsEmpty(requestQueue') = ~HasRequests(requestQueue')
     /\ IsEmpty(requestQueue') = (Len(requestQueue') = 0)
     /\ (last'.op = "EnqueueRequest" /\ last'.item = Null) =>
          requestQueue' = requestQueue
     /\ (last'.op = "EnqueueRequest" /\ last'.item # Null) =>
          requestQueue' = Append(requestQueue, last'.item[1])
     /\ last'.op = "DequeueRequest" =>
          (last'.item = Null <=> Len(requestQueue) = 0)
    ]_vars

C23_Witness ==
  /\ last.op = "EnqueueRequest"
  /\ last.item = Null
  /\ Len(requestQueue) = 2
  /\ Len(received) = 2

====
